---------------------------- MODULE Spec2Model ----------------------------
(***************************************************************************)
(* Model of paint-news-app: the article collection of                      *)
(* scripts/collect_news.py (title similarity, URL / title deduplication,   *)
(* the quality filter, the per-keyword-group fetch, the recency sort and   *)
(* truncation of collect_news), the translation loop and its retries of    *)
(* scripts/translate_summarize.py, and run_pipeline of scripts/main.py.    *)
(*                                                                         *)
(* Strings are sequences of one-character strings, so that rstrip, lower   *)
(* and difflib's matching-block ratio are computed character by character. *)
(***************************************************************************)
EXTENDS Integers, Sequences, FiniteSets, TLC

VARIABLES
    \* ---- _deduplicate_articles, run on its own (SpecDedup) ----
    articles,         \* the argument list
    idx,              \* number of loop iterations of "for article in articles" done
    seen_urls,        \* local seen_urls
    unique_articles,  \* local unique_articles
    dpc,              \* "idle" | "loop" | "returned" | "again"
    returned,         \* the list returned by the first call
    twice,            \* the list returned by the call on that result
    \* ---- collect_news (Spec) ----
    NEWSAPI_KEY,      \* config.NEWSAPI_KEY, read from the environment
    pc,               \* "idle" | "start" | "fetch" | "done" | "raised"
    q,                \* index in SEARCH_KEYWORD_GROUPS of the next query
    requests,         \* the queries sent to the search provider, in order
    outcomes,         \* how each of these requests ended
    all_articles,     \* local all_articles
    result,           \* the list collect_news returned
    error,            \* the exception collect_news raised, or "none"
    feed,             \* the raw records the provider's responses are made of
    \* ---- the loop of _fetch_articles_for_query, on its own (SpecFetch) ----
    raw_articles,     \* local raw_articles: the records of the response body
    fpos,             \* number of loop iterations of "for raw in raw_articles" done
    verdicts,         \* what _is_valid_article returned for each of them
    fetched,          \* local articles: the Article objects built
    fpc,              \* "idle" | "loop" | "returned"
    \* ---- run_pipeline (SpecPipeline) ----
    send_email,       \* keyword argument send_email
    dry_run,          \* keyword argument dry_run
    save_json,        \* keyword argument save_json
    ppc,              \* "idle" | "step1" | "step2" | "step3" | "save" | "step4"
                      \*   | "completed" | "returned" | "raised"
    calls,            \* the functions run_pipeline has called, in order
    p_articles,       \* local articles: [origin, n, translated]
    report,           \* the articles the report file on disk was made from
    sent,             \* how send_notification ended, "none" if not called
    \* ---- translate_and_summarize (SpecTranslate) ----
    ANTHROPIC_API_KEY,\* config.ANTHROPIC_API_KEY
    tpc,              \* "idle" | "start" | "call" | "returned" | "raised"
    t_articles,       \* the argument list; its articles are assigned in place
    ti,               \* number of articles translated
    attempt,          \* loop variable of _call_claude_with_retry
    history,          \* how the attempts of the current call ended
    sleeps,           \* the time.sleep delays of the current call
    t_error           \* the exception translate_and_summarize raised, or "none"

\* In Spec, unique_articles is the local of that name in collect_news: the
\* deduplicated list, sorted in place.
dvars == <<articles, idx, seen_urls, dpc, returned, twice>>
cvars == <<NEWSAPI_KEY, pc, q, requests, outcomes, all_articles, result, error>>
fvars == <<raw_articles, fpos, verdicts, fetched, fpc>>
pvars == <<send_email, dry_run, save_json, ppc, calls, p_articles, report, sent>>
tvars == <<ANTHROPIC_API_KEY, tpc, t_articles, ti, attempt, history, sleeps,
           t_error>>
xvars == <<feed, fvars, pvars, tvars>>
vars == <<dvars, unique_articles, cvars, xvars>>

\* _deduplicate_articles is not running on its own
DedupIdle ==
    /\ articles = <<>>
    /\ idx = 0
    /\ seen_urls = {}
    /\ unique_articles = <<>>
    /\ dpc = "idle"
    /\ returned = <<>>
    /\ twice = <<>>

\* collect_news is not running
CollectIdle ==
    /\ NEWSAPI_KEY = ""
    /\ pc = "idle"
    /\ q = 1
    /\ requests = <<>>
    /\ outcomes = <<>>
    /\ all_articles = <<>>
    /\ result = <<>>
    /\ error = "none"
    /\ feed = {}

\* the loop of _fetch_articles_for_query is not running on its own
FetchIdle ==
    /\ raw_articles = <<>>
    /\ fpos = 0
    /\ verdicts = <<>>
    /\ fetched = <<>>
    /\ fpc = "idle"

\* run_pipeline is not running
PipelineIdle ==
    /\ send_email = FALSE
    /\ dry_run = FALSE
    /\ save_json = FALSE
    /\ ppc = "idle"
    /\ calls = <<>>
    /\ p_articles = <<>>
    /\ report = <<>>
    /\ sent = "none"

\* translate_and_summarize is not running
TranslateIdle ==
    /\ ANTHROPIC_API_KEY = ""
    /\ tpc = "idle"
    /\ t_articles = <<>>
    /\ ti = 0
    /\ attempt = 0
    /\ history = <<>>
    /\ sleeps = <<>>
    /\ t_error = "none"

(***************************************************************************)
(* Bounds of the model.                                                    *)
(***************************************************************************)
\* longest argument list given to _deduplicate_articles in SpecDedup
MaxInput == 3
\* most articles the provider's responses put into all_articles in one run
MaxRecords == 3
\* config.MAX_ARTICLES (20 in config.py), scaled down to the model's lists
MAX_ARTICLES == 2

(***************************************************************************)
(* Strings.                                                                *)
(***************************************************************************)
UpperChars == <<"A", "B", "C", "R", "X", "Y", "Z">>
LowerChars == <<"a", "b", "c", "r", "x", "y", "z">>

\* str.lower() on one character of the model's alphabet
LowerChar(c) ==
    IF \E k \in 1..Len(UpperChars) : UpperChars[k] = c
    THEN LowerChars[CHOOSE k \in 1..Len(UpperChars) : UpperChars[k] = c]
    ELSE c

\* str.lower()
Lower(s) == [k \in 1..Len(s) |-> LowerChar(s[k])]

RECURSIVE RStripSlash(_)
\* str.rstrip("/"): every trailing "/" is removed
RStripSlash(s) ==
    IF Len(s) > 0 /\ s[Len(s)] = "/"
    THEN RStripSlash(SubSeq(s, 1, Len(s) - 1))
    ELSE s

\* the one-slash variant (a removesuffix("/") in place of rstrip("/"))
NormalizeUrlOneSlash(url) ==
    Lower(IF Len(url) > 0 /\ url[Len(url)] = "/"
          THEN SubSeq(url, 1, Len(url) - 1) ELSE url)

\* normalized_url = article.url.rstrip("/").lower()
NormalizeUrl(url) == Lower(RStripSlash(url))

(***************************************************************************)
(* difflib.SequenceMatcher(None, a, b).ratio(), for sequences shorter than *)
(* 200 elements (no autojunk) and no junk predicate.  Indices are 1-based, *)
(* ranges are half open: lo .. hi-1.                                       *)
(***************************************************************************)
RECURSIVE RunLen(_, _, _, _, _, _)
\* length of the common run of a and b that starts at a[i], b[j]
RunLen(a, b, i, j, ahi, bhi) ==
    IF i < ahi /\ j < bhi /\ a[i] = b[j]
    THEN 1 + RunLen(a, b, i + 1, j + 1, ahi, bhi)
    ELSE 0

\* find_longest_match: the longest matching block; of those, the one that
\* starts earliest in a; of those, the one that starts earliest in b.
\* <<i, j, k>>, and <<alo, blo, 0>> when nothing matches.
find_longest_match(a, b, alo, ahi, blo, bhi) ==
    LET pairs == (alo..(ahi - 1)) \X (blo..(bhi - 1))
        size(p) == RunLen(a, b, p[1], p[2], ahi, bhi)
        hits == {p \in pairs : size(p) > 0}
    IN  IF hits = {} THEN <<alo, blo, 0>>
        ELSE LET best == CHOOSE p \in hits :
                            \A r \in hits :
                                \/ size(p) > size(r)
                                \/ /\ size(p) = size(r)
                                   /\ \/ p[1] < r[1]
                                      \/ p[1] = r[1] /\ p[2] <= r[2]
             IN  <<best[1], best[2], size(best)>>

RECURSIVE MatchedChars(_, _, _, _, _, _)
\* get_matching_blocks, summed: the block found, then the pieces to its left
\* and to its right
MatchedChars(a, b, alo, ahi, blo, bhi) ==
    LET m == find_longest_match(a, b, alo, ahi, blo, bhi)
        i == m[1]
        j == m[2]
        k == m[3]
    IN  IF k = 0 THEN 0
        ELSE k
             + (IF alo < i /\ blo < j
                THEN MatchedChars(a, b, alo, i, blo, j) ELSE 0)
             + (IF i + k < ahi /\ j + k < bhi
                THEN MatchedChars(a, b, i + k, ahi, j + k, bhi) ELSE 0)

\* matches of SequenceMatcher(None, a, b): ratio() is 2.0 * matches / length
Matches(a, b) == MatchedChars(a, b, 1, Len(a) + 1, 1, Len(b) + 1)

\* threshold: float = 0.75, as the fraction ThresholdNum / ThresholdDen
ThresholdNum == 3
ThresholdDen == 4

\* ratio() >= threshold; ratio() is 1.0 when both sequences are empty
RatioAtLeast(a, b, num, den) ==
    IF Len(a) + Len(b) = 0 THEN den >= num
    ELSE 2 * Matches(a, b) * den >= num * (Len(a) + Len(b))

\* _is_similar_title(title_a, title_b, threshold=0.75)
_is_similar_title(title_a, title_b) ==
    RatioAtLeast(Lower(title_a), Lower(title_b), ThresholdNum, ThresholdDen)

(***************************************************************************)
(* _deduplicate_articles.  The loop state is [seen |-> seen_urls,          *)
(* unique |-> unique_articles]; DedupStep is one iteration of the loop.    *)
(***************************************************************************)
\* the inner loop: some already accepted article has a similar title
is_duplicate(article, unique) ==
    \E e \in 1..Len(unique) : _is_similar_title(article.title, unique[e].title)

\* variant: a later duplicate replaces the accepted article it resembles
DedupStepLastWins(st, article) ==
    LET normalized_url == NormalizeUrl(article.url)
    IN  IF normalized_url \in st.seen THEN st
        ELSE IF is_duplicate(article, st.unique)
        THEN LET e == CHOOSE x \in 1..Len(st.unique) :
                         _is_similar_title(article.title, st.unique[x].title)
             IN  [st EXCEPT !.unique[e] = article]
        ELSE [seen |-> st.seen \cup {normalized_url},
              unique |-> Append(st.unique, article)]

\* variant: accepted articles are pushed to the front of unique_articles
DedupStepPrepend(st, article) ==
    LET normalized_url == NormalizeUrl(article.url)
    IN  IF normalized_url \in st.seen THEN st
        ELSE IF is_duplicate(article, st.unique) THEN st
        ELSE [seen |-> st.seen \cup {normalized_url},
              unique |-> <<article>> \o st.unique]

\* variant: the URL of an article rejected for its title is remembered too
DedupStepSeenEarly(st, article) ==
    LET normalized_url == NormalizeUrl(article.url)
    IN  IF normalized_url \in st.seen THEN st
        ELSE IF is_duplicate(article, st.unique)
        THEN [st EXCEPT !.seen = @ \cup {normalized_url}]
        ELSE [seen |-> st.seen \cup {normalized_url},
              unique |-> Append(st.unique, article)]

\* one iteration of "for article in articles"
DedupStep(st, article) ==
    LET normalized_url == NormalizeUrl(article.url)
    IN  IF normalized_url \in st.seen THEN st
        ELSE IF is_duplicate(article, st.unique) THEN st
        ELSE [seen |-> st.seen \cup {normalized_url},
              unique |-> Append(st.unique, article)]

RECURSIVE DedupLoop(_, _, _)
\* the loop from iteration k+1 on
DedupLoop(list, k, st) ==
    IF k >= Len(list) THEN st.unique
    ELSE DedupLoop(list, k + 1, DedupStep(st, list[k + 1]))

\* _deduplicate_articles(articles), as one call
_deduplicate_articles(list) == DedupLoop(list, 0, [seen |-> {}, unique |-> <<>>])

(***************************************************************************)
(* SpecDedup: _deduplicate_articles on every list of at most MaxInput      *)
(* articles over Urls x Titles, then once more on its own result.          *)
(* An article's id is its position in the argument (its object identity).  *)
(***************************************************************************)
Urls == { <<"x">>, <<"x", "/", "/">>, <<"X">>, <<"y">>, <<"z">> }

Titles == { <<"a", "b", "b", "a">>, <<"b", "a", "b", "a">>,
            <<"A", "B", "B", "A">>, <<"a", "b", "b">> }

DedupInit ==
    /\ \E n \in 0..MaxInput :
         \E f \in [1..n -> Urls \X Titles] :
            articles = [k \in 1..n |->
                          [id |-> k, url |-> f[k][1], title |-> f[k][2]]]
    /\ idx = 0
    /\ seen_urls = {}
    /\ unique_articles = <<>>
    /\ dpc = "loop"
    /\ returned = <<>>
    /\ twice = <<>>
    /\ NEWSAPI_KEY = ""
    /\ pc = "idle"
    /\ q = 1
    /\ requests = <<>>
    /\ outcomes = <<>>
    /\ all_articles = <<>>
    /\ result = <<>>
    /\ error = "none"
    /\ feed = {}
    /\ FetchIdle
    /\ PipelineIdle
    /\ TranslateIdle

\* one iteration of the for loop
DedupIterate ==
    /\ dpc = "loop"
    /\ idx < Len(articles)
    /\ LET st == DedupStep([seen |-> seen_urls, unique |-> unique_articles],
                           articles[idx + 1])
       IN  /\ seen_urls' = st.seen
           /\ unique_articles' = st.unique
    /\ idx' = idx + 1
    /\ UNCHANGED <<articles, dpc, returned, twice, cvars, xvars>>

\* return unique_articles
DedupReturn ==
    /\ dpc = "loop"
    /\ idx = Len(articles)
    /\ returned' = unique_articles
    /\ dpc' = "returned"
    /\ UNCHANGED <<articles, idx, seen_urls, unique_articles, twice, cvars, xvars>>

\* _deduplicate_articles called again, on the list it returned
DedupAgain ==
    /\ dpc = "returned"
    /\ twice' = _deduplicate_articles(returned)
    /\ dpc' = "again"
    /\ UNCHANGED <<articles, idx, seen_urls, unique_articles, returned, cvars, xvars>>

DedupNext == DedupIterate \/ DedupReturn \/ DedupAgain

SpecDedup == DedupInit /\ [][DedupNext]_vars

(***************************************************************************)
(* The raw records of a provider response and the quality filter.          *)
(* A raw field is [kind |-> "absent" | "null" | "str", s |-> characters].  *)
(***************************************************************************)
Absent == [kind |-> "absent", s |-> <<>>]
Null == [kind |-> "null", s |-> <<>>]
Str(chars) == [kind |-> "str", s |-> chars]

\* raw.get(field) or ""
GetOrEmpty(field) == IF field.kind = "str" THEN field.s ELSE <<>>

RECURSIVE LStrip(_)
\* str.lstrip()
LStrip(s) == IF Len(s) > 0 /\ s[1] = " " THEN LStrip(Tail(s)) ELSE s

RECURSIVE RStrip(_)
\* str.rstrip()
RStrip(s) ==
    IF Len(s) > 0 /\ s[Len(s)] = " "
    THEN RStrip(SubSeq(s, 1, Len(s) - 1))
    ELSE s

\* str.strip()
Strip(s) == LStrip(RStrip(s))

\* the sentinel "[removed]"
Removed == <<"[", "r", "e", "m", "o", "v", "e", "d", "]">>

\* variant: a record without description is rejected too
IsValidNeedsDescription(raw) ==
    LET title == GetOrEmpty(raw.title)
        description == GetOrEmpty(raw.description)
        url == GetOrEmpty(raw.url)
    IN  /\ ~(Strip(title) = <<>> \/ Strip(url) = <<>>
             \/ Strip(description) = <<>>)
        /\ Lower(Strip(title)) # Removed
        /\ Lower(Strip(description)) # Removed

\* _is_valid_article(raw)
_is_valid_article(raw) ==
    LET title == GetOrEmpty(raw.title)
        description == GetOrEmpty(raw.description)
        url == GetOrEmpty(raw.url)
    IN  /\ ~(Strip(title) = <<>> \/ Strip(url) = <<>>)
        /\ Lower(Strip(title)) # Removed
        /\ Lower(Strip(description)) # Removed

(***************************************************************************)
(* publishedAt.  A raw value is absent, null, a string that is not an ISO  *)
(* timestamp ("text"), or an ISO timestamp [d, tz]: d is the local time in *)
(* hours after 0001-01-01T00:00 and tz the designator that follows it      *)
(* ("Z", "+00:00", "+01:00", or "" for none).                              *)
(***************************************************************************)
PubAbsent == [kind |-> "absent", d |-> 0, tz |-> ""]
PubNull == [kind |-> "null", d |-> 0, tz |-> ""]
PubEmpty == [kind |-> "text", d |-> 0, tz |-> ""]
Iso(d, tz) == [kind |-> "iso", d |-> d, tz |-> tz]

\* published_at = raw.get("publishedAt", ""): the default only for a missing key
GetPublishedAt(p) == IF p.kind = "absent" THEN PubEmpty ELSE p

\* article.published_at.replace("Z", "+00:00") on an ISO timestamp
ReplaceZ(p) == IF p.tz = "Z" THEN [p EXCEPT !.tz = "+00:00"] ELSE p

\* the UTC offset, in hours, of a designator
OffsetHours(tz) == IF tz = "+01:00" THEN 1 ELSE 0

\* datetime.min.replace(tzinfo=timezone.utc): hour 0, aware
DatetimeMin == 0
DatetimeMinUtc == [aware |-> TRUE, t |-> DatetimeMin]

\* datetime.fromisoformat: aware (t is the UTC instant) with a designator,
\* naive (t is the local time) without
fromisoformat(p) ==
    IF p.tz = "" THEN [aware |-> FALSE, t |-> p.d]
    ELSE [aware |-> TRUE, t |-> p.d - OffsetHours(p.tz)]

\* _parse_date(article): AttributeError for None, ValueError for a string
\* that is no ISO timestamp; both give datetime.min in UTC
_parse_date(article) ==
    LET p == article.published_at
    IN  IF p.kind = "iso" THEN fromisoformat(ReplaceZ(p))
        ELSE DatetimeMinUtc

(***************************************************************************)
(* list.sort(key=_parse_date, reverse=True).  Comparing a naive with an    *)
(* aware datetime raises TypeError, and a sort of a list that holds both   *)
(* has to compare two such keys.  Otherwise the list is reversed, sorted   *)
(* ascending by binary insertion (an element goes after the elements not   *)
(* greater than it), and reversed again.                                   *)
(***************************************************************************)
SortRaises(list) ==
    \E i, j \in 1..Len(list) :
        _parse_date(list[i]).aware # _parse_date(list[j]).aware

Reverse(list) == [k \in 1..Len(list) |-> list[Len(list) + 1 - k]]

\* insert x into the ascending list, after every element whose key is <= its key
InsertRight(sorted, x) ==
    LET n == Cardinality({k \in 1..Len(sorted) :
                             _parse_date(sorted[k]).t <= _parse_date(x).t})
    IN  SubSeq(sorted, 1, n) \o <<x>> \o SubSeq(sorted, n + 1, Len(sorted))

RECURSIVE SortAscending(_)
SortAscending(list) ==
    IF Len(list) = 0 THEN <<>>
    ELSE InsertRight(SortAscending(SubSeq(list, 1, Len(list) - 1)),
                     list[Len(list)])

\* variant: sort ascending, then reverse() the list
SortThenReverse(list) == Reverse(SortAscending(list))

\* unique_articles.sort(key=_parse_date, reverse=True), when it does not raise
SortNewestFirst(list) == Reverse(SortAscending(Reverse(list)))

\* variant: the last MAX_ARTICLES articles are kept
TruncateTail(list) ==
    SubSeq(list, IF Len(list) < MAX_ARTICLES THEN 1
                 ELSE Len(list) - MAX_ARTICLES + 1, Len(list))

\* unique_articles[:MAX_ARTICLES]
Truncate(list) ==
    SubSeq(list, 1, IF Len(list) < MAX_ARTICLES THEN Len(list) ELSE MAX_ARTICLES)

(***************************************************************************)
(* collect_news.                                                           *)
(***************************************************************************)
\* config.SEARCH_KEYWORD_GROUPS: the first two of its five queries
SEARCH_KEYWORD_GROUPS == << "paint booth", "industrial coating" >>

NumGroups == Len(SEARCH_KEYWORD_GROUPS)

\* what the provider's responses are made of
FeedStories ==
    { [url |-> Str(<<"x">>), title |-> Str(<<"a", "a">>)],
      [url |-> Str(<<"y">>), title |-> Str(<<"b", "b">>)],
      [url |-> Str(<<"z", " ">>), title |-> Str(<<" ", "c", "c">>)] }

FeedPublishedAt ==
    { PubAbsent, PubNull, Iso(0, "Z"), Iso(1, "Z"), Iso(2, "+01:00"), Iso(1, "") }

RemovedRecord ==
    [title |-> Str(<<"[", "R", "e", "m", "o", "v", "e", "d", "]">>),
     description |-> Str(<<"[", "R", "e", "m", "o", "v", "e", "d", "]">>),
     url |-> Str(<<"x">>), publishedAt |-> Iso(1, "Z")]

RawRecords ==
    { [title |-> st.title, description |-> Null, url |-> st.url,
       publishedAt |-> p] : st \in FeedStories, p \in FeedPublishedAt }
    \cup {RemovedRecord}

RECURSIVE BuildArticlesNoStrip(_, _, _)
\* variant: title and url are stored as received
BuildArticlesNoStrip(raws, group, nextId) ==
    IF Len(raws) = 0 THEN <<>>
    ELSE IF ~_is_valid_article(raws[1])
    THEN BuildArticlesNoStrip(Tail(raws), group, nextId)
    ELSE << [id |-> nextId,
             group |-> group,
             title |-> raws[1].title.s,
             url |-> raws[1].url.s,
             published_at |-> GetPublishedAt(raws[1].publishedAt)] >>
         \o BuildArticlesNoStrip(Tail(raws), group, nextId + 1)

RECURSIVE BuildArticles(_, _, _)
\* the loop of _fetch_articles_for_query over raw_articles: an Article for
\* every record the quality filter accepts.  group is the query it answers,
\* id the position it gets in all_articles.
BuildArticles(raws, group, nextId) ==
    IF Len(raws) = 0 THEN <<>>
    ELSE IF ~_is_valid_article(raws[1])
    THEN BuildArticles(Tail(raws), group, nextId)
    ELSE << [id |-> nextId,
             group |-> group,
             title |-> Strip(raws[1].title.s),
             url |-> Strip(raws[1].url.s),
             published_at |-> GetPublishedAt(raws[1].publishedAt)] >>
         \o BuildArticles(Tail(raws), group, nextId + 1)

Init ==
    /\ NEWSAPI_KEY \in {"", "key"}
    /\ pc = "start"
    /\ q = 1
    /\ requests = <<>>
    /\ outcomes = <<>>
    /\ all_articles = <<>>
    /\ unique_articles = <<>>
    /\ result = <<>>
    /\ error = "none"
    /\ articles = <<>>
    /\ idx = 0
    /\ seen_urls = {}
    /\ dpc = "idle"
    /\ returned = <<>>
    /\ twice = <<>>
    /\ feed = RawRecords
    /\ FetchIdle
    /\ PipelineIdle
    /\ TranslateIdle

\* variant: the key is not checked
StartNoKeyCheck ==
    /\ pc = "start"
    /\ pc' = "fetch"
    /\ UNCHANGED <<dvars, xvars, unique_articles, NEWSAPI_KEY, q, requests,
                   outcomes, all_articles, result, error>>

\* collect_news up to the loop over the keyword groups
Start ==
    /\ pc = "start"
    /\ IF NEWSAPI_KEY = ""
       THEN pc' = "raised" /\ error' = "ValueError"
       ELSE pc' = "fetch" /\ error' = error
    /\ UNCHANGED <<dvars, xvars, unique_articles, NEWSAPI_KEY, q, requests, outcomes,
                   all_articles, result>>

\* variant: no try / except, the failure leaves collect_news as an exception
QueryFailsUncaught(how) ==
    /\ requests' = Append(requests, SEARCH_KEYWORD_GROUPS[q])
    /\ outcomes' = Append(outcomes, how)
    /\ pc' = "raised"
    /\ error' = "RequestException"
    /\ UNCHANGED <<dvars, xvars, unique_articles, NEWSAPI_KEY, q, all_articles, result>>

\* a query whose request fails: the error is logged,
\* _fetch_articles_for_query returns [] and the loop goes on
QueryFails(how) ==
    /\ requests' = Append(requests, SEARCH_KEYWORD_GROUPS[q])
    /\ outcomes' = Append(outcomes, how)
    /\ q' = q + 1
    /\ UNCHANGED <<dvars, xvars, unique_articles, NEWSAPI_KEY, pc, all_articles,
                   result, error>>

\* requests.get raises a RequestException
FetchTransportError ==
    /\ pc = "fetch"
    /\ q <= NumGroups
    /\ QueryFails("transport_error")

\* raise_for_status raises for an HTTP error status
FetchHttpError ==
    /\ pc = "fetch"
    /\ q <= NumGroups
    /\ QueryFails("http_error")

\* the body's status is not "ok"
FetchStatusNotOk ==
    /\ pc = "fetch"
    /\ q <= NumGroups
    /\ QueryFails("status_not_ok")

\* status "ok": the records of the body that pass the filter are appended
FetchOk ==
    /\ pc = "fetch"
    /\ q <= NumGroups
    /\ \E n \in 0..(MaxRecords - Len(all_articles)) :
         \E raws \in [1..n -> feed] :
            all_articles' =
                all_articles \o BuildArticles(raws, q, Len(all_articles) + 1)
    /\ requests' = Append(requests, SEARCH_KEYWORD_GROUPS[q])
    /\ outcomes' = Append(outcomes, "ok")
    /\ q' = q + 1
    /\ UNCHANGED <<dvars, xvars, unique_articles, NEWSAPI_KEY, pc, result, error>>

\* a value that is neither a string nor falsy (a number, an object)
NotAString == [kind |-> "other", s |-> <<>>]

\* the "source" of a raw record: absent, null, or an object with a name
SourceAbsent == "absent"
SourceNull == "null"
SourceObject == "object"

\* records with a null source or a field that is not a string
FlawedRecords ==
    { [title |-> t, description |-> d, url |-> u, source |-> s,
       publishedAt |-> Iso(1, "Z")] :
         t \in {Str(<<"a">>), NotAString, Str(<<>>)},
         d \in {Null, NotAString},
         u \in {Str(<<"x">>), NotAString},
         s \in {SourceAbsent, SourceNull, SourceObject} }

\* (raw.get(field) or "").strip() raises AttributeError
StripRaises(field) == field.kind = "other"

\* the exception one iteration of the loop over raw_articles raises for
\* raw, "none" if it raises nothing: the three strip() calls of
\* _is_valid_article, and raw.get("source", {}).get("name") for an
\* accepted record
ItemRaises(raw) ==
    IF StripRaises(raw.title) \/ StripRaises(raw.description)
       \/ StripRaises(raw.url)
    THEN "AttributeError"
    ELSE IF _is_valid_article(raw) /\ raw.source = SourceNull
    THEN "AttributeError"
    ELSE "none"

\* an answered request whose body makes _fetch_articles_for_query raise:
\* nothing in it or in collect_news catches the exception
ResponseRaises(how, exception) ==
    /\ requests' = Append(requests, SEARCH_KEYWORD_GROUPS[q])
    /\ outcomes' = Append(outcomes, how)
    /\ pc' = "raised"
    /\ error' = exception
    /\ UNCHANGED <<dvars, xvars, unique_articles, NEWSAPI_KEY, q, all_articles,
                   result>>

\* response.json() raises: the body is not JSON
FetchInvalidJson ==
    /\ pc = "fetch"
    /\ q <= NumGroups
    /\ ResponseRaises("invalid_json", "JSONDecodeError")

\* status "ok" and "articles": null: len(raw_articles) raises
FetchArticlesNull ==
    /\ pc = "fetch"
    /\ q <= NumGroups
    /\ ResponseRaises("articles_null", "TypeError: len()")

\* status "ok" and a record for which the loop raises
FetchFlawedItem ==
    /\ pc = "fetch"
    /\ q <= NumGroups
    /\ \E raw \in FlawedRecords :
          /\ ItemRaises(raw) # "none"
          /\ ResponseRaises("flawed_item", ItemRaises(raw))

\* variant: the merged list is sorted by recency before it is deduplicated
FinishSortFirst ==
    /\ pc = "fetch"
    /\ q > NumGroups
    /\ IF SortRaises(all_articles)
       THEN /\ pc' = "raised"
            /\ error' = "TypeError"
            /\ UNCHANGED <<unique_articles, result>>
       ELSE /\ unique_articles' =
                 SortNewestFirst(_deduplicate_articles(SortNewestFirst(all_articles)))
            /\ result' = Truncate(unique_articles')
            /\ pc' = "done"
            /\ error' = error
    /\ UNCHANGED <<dvars, xvars, NEWSAPI_KEY, q, requests, outcomes, all_articles>>

\* after the loop: deduplicate, sort, truncate, return
Finish ==
    /\ pc = "fetch"
    /\ q > NumGroups
    /\ LET deduped == _deduplicate_articles(all_articles)
       IN  IF SortRaises(deduped)
           THEN /\ pc' = "raised"
                /\ error' = "TypeError"
                /\ UNCHANGED <<unique_articles, result>>
           ELSE /\ unique_articles' = SortNewestFirst(deduped)
                /\ result' = Truncate(unique_articles')
                /\ pc' = "done"
                /\ error' = error
    /\ UNCHANGED <<dvars, xvars, NEWSAPI_KEY, q, requests, outcomes, all_articles>>

Next ==
    \/ Start
    \/ FetchTransportError
    \/ FetchHttpError
    \/ FetchStatusNotOk
    \/ FetchOk
    \/ FetchInvalidJson
    \/ FetchArticlesNull
    \/ FetchFlawedItem
    \/ Finish

Spec == Init /\ [][Next]_vars

(***************************************************************************)
(* collect_news with a provider whose stories duplicate one another across *)
(* keyword groups (SpecMerge): titles similar in a chain ("abb" to "abba", *)
(* "abba" to "baba", "abb" not to "baba"), a URL that differs from another *)
(* by case and a trailing slash, and two publish times.                    *)
(***************************************************************************)
MergeStories ==
    { [url |-> Str(<<"x">>), title |-> Str(<<"b", "a", "b", "a">>)],
      [url |-> Str(<<"y">>), title |-> Str(<<"a", "b", "b", "a">>)],
      [url |-> Str(<<"z">>), title |-> Str(<<"a", "b", "b">>)],
      [url |-> Str(<<"X", "/">>), title |-> Str(<<"c", "c">>)] }

MergeRecords ==
    { [title |-> st.title, description |-> Null, url |-> st.url,
       publishedAt |-> p] : st \in MergeStories, p \in {Iso(1, "Z"), Iso(2, "Z")} }

MergeInit ==
    /\ NEWSAPI_KEY \in {"", "key"}
    /\ pc = "start"
    /\ q = 1
    /\ requests = <<>>
    /\ outcomes = <<>>
    /\ all_articles = <<>>
    /\ result = <<>>
    /\ error = "none"
    /\ feed = MergeRecords
    /\ DedupIdle
    /\ FetchIdle
    /\ PipelineIdle
    /\ TranslateIdle

SpecMerge == MergeInit /\ [][Next]_vars

(***************************************************************************)
(* The loop of _fetch_articles_for_query over the records of one response  *)
(* body, run on its own (SpecFetch): the quality filter, and the Article   *)
(* built from an accepted record.                                          *)
(***************************************************************************)
\* longest list of records of a response body in SpecFetch
MaxBatch == 2

RemovedPadded == <<" ", "[", "R", "e", "m", "o", "v", "e", "d", "]", " ">>

\* values of "title", "description" and "url" in a raw record
RawTitles ==
    { Absent, Null, Str(<<>>), Str(<<" ">>), Str(RemovedPadded),
      Str(<<" ", "a", "b", " ">>) }

RawDescriptions == { Absent, Null, Str(RemovedPadded), Str(<<"d">>) }

RawUrls == { Absent, Str(<<" ">>), Str(<<"x", " ">>) }

BodyRecords ==
    { [title |-> t, description |-> d, url |-> u, publishedAt |-> Iso(1, "Z")] :
         t \in RawTitles, d \in RawDescriptions, u \in RawUrls }

FetchInit ==
    /\ \E n \in 0..MaxBatch : raw_articles \in [1..n -> BodyRecords]
    /\ fpos = 0
    /\ verdicts = <<>>
    /\ fetched = <<>>
    /\ fpc = "loop"
    /\ DedupIdle
    /\ CollectIdle
    /\ PipelineIdle
    /\ TranslateIdle

\* one iteration of "for raw in raw_articles"
FetchIterate ==
    /\ fpc = "loop"
    /\ fpos < Len(raw_articles)
    /\ LET raw == raw_articles[fpos + 1]
       IN  /\ verdicts' = Append(verdicts, _is_valid_article(raw))
           /\ fetched' = fetched \o BuildArticles(<<raw>>, 1, Len(fetched) + 1)
    /\ fpos' = fpos + 1
    /\ UNCHANGED <<raw_articles, fpc, dvars, unique_articles, cvars, feed,
                   pvars, tvars>>

\* return articles
FetchReturn ==
    /\ fpc = "loop"
    /\ fpos = Len(raw_articles)
    /\ fpc' = "returned"
    /\ UNCHANGED <<raw_articles, fpos, verdicts, fetched, dvars,
                   unique_articles, cvars, feed, pvars, tvars>>

FetchNext == FetchIterate \/ FetchReturn

SpecFetch == FetchInit /\ [][FetchNext]_vars

(***************************************************************************)
(* run_pipeline (SpecPipeline).  The stages it calls are seen from the     *)
(* caller: each returns or raises; an article is [origin, translated].     *)
(***************************************************************************)
\* longest list collect_news returns in SpecPipeline
MaxCollected == 3

\* _create_dummy_articles(): three articles, translations filled in
DummyArticles ==
    << [origin |-> "dummy", translated |-> TRUE],
       [origin |-> "dummy", translated |-> TRUE],
       [origin |-> "dummy", translated |-> TRUE] >>

\* a list of n articles as collect_news returns them
Collected(n) == [k \in 1..n |-> [origin |-> "collect_news", translated |-> FALSE]]

\* translate_and_summarize(list), when it returns
Translated(list) == [k \in 1..Len(list) |-> [list[k] EXCEPT !.translated = TRUE]]

\* what a step of the pipeline leaves alone
PipelineFrame == <<send_email, dry_run, save_json, dvars, unique_articles,
                   cvars, feed, fvars, tvars>>

PipelineInit ==
    /\ send_email \in BOOLEAN
    /\ dry_run \in BOOLEAN
    /\ save_json \in BOOLEAN
    /\ ppc = "step1"
    /\ calls = <<>>
    /\ p_articles = <<>>
    /\ report = <<>>
    /\ sent = "none"
    /\ DedupIdle
    /\ CollectIdle
    /\ FetchIdle
    /\ TranslateIdle

\* Step 1, dry run: the dummy articles; they are not an empty list
Step1Dummy ==
    /\ ppc = "step1"
    /\ dry_run
    /\ calls' = Append(calls, "_create_dummy_articles")
    /\ p_articles' = DummyArticles
    /\ ppc' = IF p_articles' = <<>> THEN "returned" ELSE "step2"
    /\ UNCHANGED <<report, sent, PipelineFrame>>

\* variant: an empty list does not end the pipeline
Step1CollectNoEarlyReturn ==
    /\ ppc = "step1"
    /\ ~dry_run
    /\ calls' = Append(calls, "collect_news")
    /\ \E n \in 0..MaxCollected : p_articles' = Collected(n)
    /\ ppc' = "step2"
    /\ UNCHANGED <<report, sent, PipelineFrame>>

\* Step 1: collect_news returns a list; "if not articles: return"
Step1Collect ==
    /\ ppc = "step1"
    /\ ~dry_run
    /\ calls' = Append(calls, "collect_news")
    /\ \E n \in 0..MaxCollected : p_articles' = Collected(n)
    /\ ppc' = IF p_articles' = <<>> THEN "returned" ELSE "step2"
    /\ UNCHANGED <<report, sent, PipelineFrame>>

\* Step 1: collect_news raises
Step1CollectRaises ==
    /\ ppc = "step1"
    /\ ~dry_run
    /\ calls' = Append(calls, "collect_news")
    /\ ppc' = "raised"
    /\ UNCHANGED <<p_articles, report, sent, PipelineFrame>>

\* Step 2, dry run: nothing is called
Step2Skip ==
    /\ ppc = "step2"
    /\ dry_run
    /\ ppc' = "step3"
    /\ UNCHANGED <<calls, p_articles, report, sent, PipelineFrame>>

\* Step 2: translate_and_summarize returns
Step2Translate ==
    /\ ppc = "step2"
    /\ ~dry_run
    /\ calls' = Append(calls, "translate_and_summarize")
    /\ p_articles' = Translated(p_articles)
    /\ ppc' = "step3"
    /\ UNCHANGED <<report, sent, PipelineFrame>>

\* Step 2: translate_and_summarize raises
Step2TranslateRaises ==
    /\ ppc = "step2"
    /\ ~dry_run
    /\ calls' = Append(calls, "translate_and_summarize")
    /\ ppc' = "raised"
    /\ UNCHANGED <<p_articles, report, sent, PipelineFrame>>

\* Step 3: generate_weekly_report writes the report and returns its path
Step3Generate ==
    /\ ppc = "step3"
    /\ calls' = Append(calls, "generate_weekly_report")
    /\ report' = p_articles
    /\ ppc' = "save"
    /\ UNCHANGED <<p_articles, sent, PipelineFrame>>

\* Step 3: generate_weekly_report raises, before or after it wrote the file
Step3GenerateRaises ==
    /\ ppc = "step3"
    /\ calls' = Append(calls, "generate_weekly_report")
    /\ report' \in {report, p_articles}
    /\ ppc' = "raised"
    /\ UNCHANGED <<p_articles, sent, PipelineFrame>>

\* "if save_json: _save_articles_json(articles)", which returns
SaveJson ==
    /\ ppc = "save"
    /\ calls' = IF save_json THEN Append(calls, "_save_articles_json") ELSE calls
    /\ ppc' = "step4"
    /\ UNCHANGED <<p_articles, report, sent, PipelineFrame>>

\* _save_articles_json raises
SaveJsonRaises ==
    /\ ppc = "save"
    /\ save_json
    /\ calls' = Append(calls, "_save_articles_json")
    /\ ppc' = "raised"
    /\ UNCHANGED <<p_articles, report, sent, PipelineFrame>>

\* Step 4: "if not send_email" / "elif dry_run": no email
Step4Skip ==
    /\ ppc = "step4"
    /\ ~send_email \/ dry_run
    /\ ppc' = "completed"
    /\ UNCHANGED <<calls, p_articles, report, sent, PipelineFrame>>

\* variant: the email is sent in a dry run too
Step4SendInDryRun(outcome) ==
    /\ ppc = "step4"
    /\ send_email
    /\ calls' = Append(calls, "send_notification")
    /\ sent' = outcome
    /\ ppc' = "completed"
    /\ UNCHANGED <<p_articles, report, PipelineFrame>>

\* variant: no try / except around send_notification
Step4SendUncaught(outcome) ==
    /\ ppc = "step4"
    /\ send_email /\ ~dry_run
    /\ calls' = Append(calls, "send_notification")
    /\ sent' = outcome
    /\ ppc' = IF outcome = "raised" THEN "raised" ELSE "completed"
    /\ UNCHANGED <<p_articles, report, PipelineFrame>>

\* Step 4: send_notification returns True or False, or raises; the
\* exception is caught and logged
Step4Send(outcome) ==
    /\ ppc = "step4"
    /\ send_email /\ ~dry_run
    /\ calls' = Append(calls, "send_notification")
    /\ sent' = outcome
    /\ ppc' = "completed"
    /\ UNCHANGED <<p_articles, report, PipelineFrame>>

PipelineNext ==
    \/ Step1Dummy
    \/ Step1Collect
    \/ Step1CollectRaises
    \/ Step2Skip
    \/ Step2Translate
    \/ Step2TranslateRaises
    \/ Step3Generate
    \/ Step3GenerateRaises
    \/ SaveJson
    \/ SaveJsonRaises
    \/ Step4Skip
    \/ \E outcome \in {"True", "False", "raised"} : Step4Send(outcome)

SpecPipeline == PipelineInit /\ [][PipelineNext]_vars

(***************************************************************************)
(* translate_and_summarize and _call_claude_with_retry (SpecTranslate).    *)
(* An attempt is one call of client.messages.create; it ends with an       *)
(* answer that parses to a JSON object, with a RateLimitError, with        *)
(* another APIError, with an answer json.loads rejects, or with an answer  *)
(* of another shape, on which the code raises an exception it does not     *)
(* catch.                                                                  *)
(***************************************************************************)
\* longest argument list of translate_and_summarize in SpecTranslate
MaxTranslate == 2

\* default of the parameter max_retries
max_retries == 3

\* default of the parameter base_delay, in seconds
base_delay == 2

\* the keys of CATEGORIES
CATEGORIES ==
    { "equipment", "technology", "automotive", "regulation", "market",
      "company", "other" }

\* a key the answer does not have
Missing == "<missing>"

\* no answer was used for the article yet; the fallback was used
NoAnswer ==
    [title_ja |-> "<none>", summary_ja |-> "<none>", category |-> "<none>"]
FallbackUsed ==
    [title_ja |-> "<fallback>", summary_ja |-> "<fallback>",
     category |-> "<fallback>"]

\* the JSON objects the model answers with
Answers ==
    { [title_ja |-> "ja title", summary_ja |-> "ja summary", category |-> c] :
         c \in {"equipment", "other", "gadgets", Missing} }
    \cup { [title_ja |-> Missing, summary_ja |-> Missing, category |-> "market"],
           [title_ja |-> "", summary_ja |-> "ja summary",
            category |-> "Equipment"] }

\* article.description or text
DescriptionOr(article, text) ==
    IF article.description = "" THEN text ELSE article.description

\* result.setdefault(...) for the keys the answer lacks
SetDefaults(article, answer) ==
    [title_ja |-> IF answer.title_ja = Missing THEN article.title
                  ELSE answer.title_ja,
     summary_ja |-> IF answer.summary_ja = Missing
                    THEN DescriptionOr(article, "(no summary)")
                    ELSE answer.summary_ja,
     category |-> IF answer.category = Missing THEN "other"
                  ELSE answer.category]

\* variant: the category is returned as answered
ParseAnswerAsIs(article, answer) == SetDefaults(article, answer)

\* the result returned for an answer: missing keys completed, and a
\* category that is no key of CATEGORIES replaced by "other"
ParseAnswer(article, answer) ==
    LET completed == SetDefaults(article, answer)
    IN  IF completed.category \notin CATEGORIES
        THEN [completed EXCEPT !.category = "other"]
        ELSE completed

\* the result returned when every attempt failed
Fallback(article) ==
    [title_ja |-> article.title,
     summary_ja |-> DescriptionOr(article, "(translation failed)"),
     category |-> "other"]

\* article.title_ja, .summary_ja, .category = result[...]; answer records
\* what the result was made from
Assign(article, res, answer) ==
    [article EXCEPT !.title_ja = res.title_ja,
                    !.summary_ja = res.summary_ja,
                    !.category = res.category,
                    !.assigned = TRUE,
                    !.answer = answer]

RECURSIVE Pow2(_)
\* 2 ** n
Pow2(n) == IF n = 0 THEN 1 ELSE 2 * Pow2(n - 1)

\* what a step of translate_and_summarize leaves alone
TranslateFrame == <<ANTHROPIC_API_KEY, dvars, unique_articles, cvars, feed,
                    fvars, pvars>>

TranslateInit ==
    /\ ANTHROPIC_API_KEY \in {"", "key"}
    /\ tpc = "start"
    /\ \E n \in 0..MaxTranslate :
         \E descriptions \in [1..n -> {"", "description"}] :
            t_articles = [k \in 1..n |->
                            [id |-> k, title |-> "title",
                             description |-> descriptions[k],
                             title_ja |-> "", summary_ja |-> "",
                             category |-> "", assigned |-> FALSE,
                             answer |-> NoAnswer]]
    /\ ti = 0
    /\ attempt = 0
    /\ history = <<>>
    /\ sleeps = <<>>
    /\ t_error = "none"
    /\ DedupIdle
    /\ CollectIdle
    /\ FetchIdle
    /\ PipelineIdle

\* "if not ANTHROPIC_API_KEY: raise ValueError"
TranslateStart ==
    /\ tpc = "start"
    /\ IF ANTHROPIC_API_KEY = ""
       THEN tpc' = "raised" /\ t_error' = "ValueError"
       ELSE tpc' = "loop" /\ t_error' = t_error
    /\ UNCHANGED <<t_articles, ti, attempt, history, sleeps, TranslateFrame>>

\* the for loop takes the next article and calls _call_claude_with_retry
BeginCall ==
    /\ tpc = "loop"
    /\ ti < Len(t_articles)
    /\ tpc' = "call"
    /\ attempt' = 0
    /\ history' = <<>>
    /\ sleeps' = <<>>
    /\ UNCHANGED <<t_articles, ti, t_error, TranslateFrame>>

\* the attempt is answered with a JSON object: the result is returned and
\* assigned to the article
AttemptSuccess ==
    /\ tpc = "call"
    /\ attempt < max_retries
    /\ \E answer \in Answers :
          t_articles' =
              [t_articles EXCEPT ![ti + 1] =
                  Assign(@, ParseAnswer(@, answer), answer)]
    /\ history' = Append(history, "success")
    /\ sleeps' = Append(sleeps, 0)
    /\ ti' = ti + 1
    /\ tpc' = "loop"
    /\ UNCHANGED <<attempt, t_error, TranslateFrame>>

\* variant: the same delay after every rate-limit error
AttemptRateLimitFixedDelay ==
    /\ tpc = "call"
    /\ attempt < max_retries
    /\ history' = Append(history, "rate_limit")
    /\ sleeps' = Append(sleeps, base_delay)
    /\ attempt' = attempt + 1
    /\ UNCHANGED <<tpc, t_articles, ti, t_error, TranslateFrame>>

\* anthropic.RateLimitError: sleep base_delay * (2 ** attempt), go on
AttemptRateLimit ==
    /\ tpc = "call"
    /\ attempt < max_retries
    /\ history' = Append(history, "rate_limit")
    /\ sleeps' = Append(sleeps, base_delay * Pow2(attempt))
    /\ attempt' = attempt + 1
    /\ UNCHANGED <<tpc, t_articles, ti, t_error, TranslateFrame>>

\* another anthropic.APIError: sleep base_delay and go on, or raise on the
\* last attempt
AttemptApiError ==
    /\ tpc = "call"
    /\ attempt < max_retries
    /\ history' = Append(history, "api_error")
    /\ IF attempt < max_retries - 1
       THEN /\ sleeps' = Append(sleeps, base_delay)
            /\ attempt' = attempt + 1
            /\ UNCHANGED <<tpc, t_error>>
       ELSE /\ sleeps' = Append(sleeps, 0)
            /\ tpc' = "raised"
            /\ t_error' = "APIError"
            /\ UNCHANGED attempt
    /\ UNCHANGED <<t_articles, ti, TranslateFrame>>

\* json.JSONDecodeError, KeyError or IndexError: sleep base_delay unless
\* it was the last attempt, go on
AttemptUnparseable ==
    /\ tpc = "call"
    /\ attempt < max_retries
    /\ history' = Append(history, "unparseable")
    /\ sleeps' = Append(sleeps, IF attempt < max_retries - 1 THEN base_delay ELSE 0)
    /\ attempt' = attempt + 1
    /\ UNCHANGED <<tpc, t_articles, ti, t_error, TranslateFrame>>

\* an answer of another shape (content[0] without text, JSON that is not
\* an object, a category that is not hashable): AttributeError or
\* TypeError, which no except clause covers
AttemptMalformed ==
    /\ tpc = "call"
    /\ attempt < max_retries
    /\ history' = Append(history, "malformed")
    /\ sleeps' = Append(sleeps, 0)
    /\ tpc' = "raised"
    /\ t_error' \in {"AttributeError", "TypeError"}
    /\ UNCHANGED <<t_articles, ti, attempt, TranslateFrame>>

\* the for loop over the attempts is over: the fallback is returned and
\* assigned to the article
Exhausted ==
    /\ tpc = "call"
    /\ attempt = max_retries
    /\ t_articles' =
          [t_articles EXCEPT ![ti + 1] = Assign(@, Fallback(@), FallbackUsed)]
    /\ ti' = ti + 1
    /\ tpc' = "loop"
    /\ UNCHANGED <<attempt, history, sleeps, t_error, TranslateFrame>>

\* return articles
TranslateReturn ==
    /\ tpc = "loop"
    /\ ti = Len(t_articles)
    /\ tpc' = "returned"
    /\ UNCHANGED <<t_articles, ti, attempt, history, sleeps, t_error,
                   TranslateFrame>>

TranslateNext ==
    \/ TranslateStart
    \/ BeginCall
    \/ AttemptSuccess
    \/ AttemptRateLimit
    \/ AttemptApiError
    \/ AttemptUnparseable
    \/ AttemptMalformed
    \/ Exhausted
    \/ TranslateReturn

SpecTranslate == TranslateInit /\ [][TranslateNext]_vars

(***************************************************************************)
(* Properties of _deduplicate_articles (SpecDedup).                        *)
(***************************************************************************)
\* the ids (argument positions) of the articles of a list
Ids(list) == {list[k].id : k \in 1..Len(list)}

\* length of url without its trailing "/" characters
TrimmedLen(url) ==
    CHOOSE k \in 0..Len(url) :
        /\ k = 0 \/ url[k] # "/"
        /\ \A m \in (k + 1)..Len(url) : url[m] = "/"

\* u and v are equal up to trailing "/" characters and letter case
SameUrl(u, v) ==
    /\ TrimmedLen(u) = TrimmedLen(v)
    /\ \A m \in 1..TrimmedLen(u) : LowerChar(u[m]) = LowerChar(v[m])

\* C1: no two distinct articles of the returned list have the same URL up to
\* trailing slashes and letter case.
C1_NoSharedNormalizedUrl ==
    \A i, j \in 1..Len(returned) :
        i # j => ~SameUrl(returned[i].url, returned[j].url)

\* C1 witness: an article whose URL differs from an accepted one's only by
\* trailing slashes or case, and whose title is not similar, was dropped.
C1_Witness ==
    /\ dpc = "returned"
    /\ \E i, j \in 1..Len(articles) :
          /\ i < j
          /\ i \in Ids(returned)
          /\ j \notin Ids(returned)
          /\ articles[i].url # articles[j].url
          /\ SameUrl(articles[i].url, articles[j].url)
          /\ \A k \in 1..Len(returned) :
                ~_is_similar_title(articles[j].title, returned[k].title)

\* C2: no two distinct articles of the returned list have titles whose
\* similarity ratio reaches the threshold, whichever title is the first
\* argument of the ratio.
C2_NoSimilarTitlesEitherOrder ==
    \A i, j \in 1..Len(returned) :
        i # j => ~_is_similar_title(returned[i].title, returned[j].title)

\* C3: deduplicating the returned list once more returns the same list.
C3_Idempotent == dpc = "again" => twice = returned

\* C3 witness: the second call has run on a result of two or more articles
\* from which the first call had removed something.
C3_Witness ==
    /\ dpc = "again"
    /\ Len(returned) >= 2
    /\ Len(returned) < Len(articles)

\* C4: the returned list is a subsequence of the argument: its articles are
\* argument articles, in strictly increasing argument position; and the
\* first article of a non-empty argument is returned (first).
C4_Subsequence ==
    dpc = "returned" =>
        /\ \A k \in 1..Len(returned) :
              /\ returned[k].id \in 1..Len(articles)
              /\ returned[k] = articles[returned[k].id]
        /\ \A k \in 1..(Len(returned) - 1) : returned[k].id < returned[k + 1].id
        /\ Len(articles) > 0 => Len(returned) > 0 /\ returned[1] = articles[1]

\* C4 witness: a proper subsequence of two or more articles was returned
\* that skips an article in the middle of the argument.
C4_Witness ==
    /\ dpc = "returned"
    /\ Len(returned) >= 2
    /\ \E k \in 1..(Len(returned) - 1) : returned[k + 1].id > returned[k].id + 1

\* article i of the argument duplicates article j: same normalized URL, or
\* title similar with i's title as the first argument of the ratio
Duplicates(i, j) ==
    \/ SameUrl(articles[i].url, articles[j].url)
    \/ _is_similar_title(articles[i].title, articles[j].title)

\* C5: first occurrence wins.  At every point of the loop, a processed
\* article is absent from unique_articles iff an earlier article that is in
\* unique_articles has the same normalized URL or a similar title.
C5_FirstOccurrenceWins ==
    \A i \in 1..idx :
        (i \notin Ids(unique_articles)) <=>
            \E j \in 1..(i - 1) : j \in Ids(unique_articles) /\ Duplicates(i, j)

\* C5 witness: an article was accepted although it duplicates an earlier
\* article, which had itself been rejected.
C5_Witness ==
    /\ dpc = "returned"
    /\ \E i, j \in 1..Len(articles) :
          /\ j < i
          /\ i \in Ids(returned)
          /\ j \notin Ids(returned)
          /\ Duplicates(i, j)

(***************************************************************************)
(* Properties of collect_news (Spec).                                      *)
(***************************************************************************)
\* the parsed publish time of an article; datetime.min when it has none
ParsedTime(a) == _parse_date(a).t

\* published_at is an ISO timestamp that fromisoformat parses
Parseable(a) == a.published_at.kind = "iso"

\* C6: the returned list is in descending order of parsed publish time
\* (a missing or unparseable published_at counting as datetime.min), and
\* articles of equal parsed time are in arrival order.
C6_NewestFirstStable ==
    pc = "done" =>
        \A i, j \in 1..Len(result) :
            i < j =>
                \/ ParsedTime(result[i]) > ParsedTime(result[j])
                \/ /\ ParsedTime(result[i]) = ParsedTime(result[j])
                   /\ result[i].id < result[j].id

\* C6 witness: the sort moved an article, and the result holds two articles
\* of equal parsed time whose published_at strings differ.
C6_Witness ==
    /\ pc = "done"
    /\ \E i, j \in 1..Len(unique_articles) :
          i < j /\ unique_articles[i].id > unique_articles[j].id
    /\ \E i, j \in 1..Len(result) :
          /\ i < j
          /\ ParsedTime(result[i]) = ParsedTime(result[j])
          /\ result[i].published_at # result[j].published_at
          /\ Parseable(result[i]) /\ Parseable(result[j])

\* C7: the sort step never fails: collect_news raises nothing but the
\* configuration error, whatever published_at values the provider returns.
C7_SortNeverFails == ~(pc = "raised" /\ error = "TypeError")

\* C8: in the result every article with a missing or unparseable
\* published_at comes after every article with a parseable one, and the
\* articles without a parseable published_at are in arrival order.
C8_UnparseableLast ==
    pc = "done" =>
        \A i, j \in 1..Len(result) :
            /\ (~Parseable(result[i]) /\ Parseable(result[j])) => j < i
            /\ (~Parseable(result[i]) /\ ~Parseable(result[j]) /\ i < j)
                  => result[i].id < result[j].id

\* C9: the result has min(number of deduplicated articles, MAX_ARTICLES)
\* articles, all of them deduplicated articles, and no deduplicated article
\* left out is more recent than an article of the result.
C9_TruncationKeepsNewest ==
    pc = "done" =>
        LET deduped == _deduplicate_articles(all_articles)
            n == Len(deduped)
        IN  /\ Len(result) = IF n < MAX_ARTICLES THEN n ELSE MAX_ARTICLES
            /\ Cardinality(Ids(result)) = Len(result)
            /\ \A k \in 1..Len(result) :
                  \E d \in 1..n : deduped[d] = result[k]
            /\ \A d \in 1..n :
                  deduped[d].id \notin Ids(result) =>
                      \A k \in 1..Len(result) :
                          ParsedTime(deduped[d]) <= ParsedTime(result[k])

\* C9 witness: more than MAX_ARTICLES deduplicated articles, and one that is
\* left out is strictly older than the oldest article kept.
C9_Witness ==
    /\ pc = "done"
    /\ Len(unique_articles) > MAX_ARTICLES
    /\ Len(result) = MAX_ARTICLES
    /\ \E k \in 1..Len(unique_articles) :
          /\ unique_articles[k].id \notin Ids(result)
          /\ ParsedTime(unique_articles[k]) < ParsedTime(result[Len(result)])

\* the ways a request fails
FailureKinds == {"transport_error", "http_error", "status_not_ok"}

\* the queries whose request failed
FailedGroups == {g \in 1..Len(outcomes) : outcomes[g] \in FailureKinds}

\* C10: failure isolation.  A query whose request fails (transport error,
\* HTTP error status, status other than "ok") contributes no article; the
\* queries are sent once each in declaration order, a failure does not end
\* the loop or raise, and it leaves the articles collected so far in place;
\* a returned result is made of articles of the other queries, each of them
\* in it unless it duplicates an earlier one or MAX_ARTICLES was reached.
C10_FailureIsolation ==
    /\ [](/\ \A k \in 1..Len(all_articles) :
                all_articles[k].group \notin FailedGroups
          /\ pc # "raised" =>
                /\ requests = [g \in 1..(q - 1) |-> SEARCH_KEYWORD_GROUPS[g]]
                /\ Len(outcomes) = q - 1
          /\ pc = "done" => /\ q = NumGroups + 1
                            /\ \A k \in 1..Len(all_articles) :
                                  \/ all_articles[k].id \in Ids(result)
                                  \/ Len(result) = MAX_ARTICLES
                                  \/ \E e \in 1..(k - 1) :
                                        \/ SameUrl(all_articles[k].url,
                                                   all_articles[e].url)
                                        \/ _is_similar_title(all_articles[k].title,
                                                             all_articles[e].title))
    /\ [][(Len(outcomes') = Len(outcomes) + 1
           /\ outcomes'[Len(outcomes')] \in FailureKinds)
          => /\ all_articles' = all_articles
             /\ pc' = "fetch"
             /\ q' = q + 1
             /\ error' = "none"]_vars

\* C10 witness: the first query failed, the second one was answered, and an
\* article of the second query is in the returned result.
C10_Witness ==
    /\ pc = "done"
    /\ 1 \in FailedGroups
    /\ outcomes[NumGroups] = "ok"
    /\ \E k \in 1..Len(result) : result[k].group = NumGroups

\* C11: with a non-empty credential, nothing a provider response contains
\* makes collect_news raise: for every per-query outcome (transport
\* failure, error status, a body that is not JSON, "articles": null, a
\* record whose source is null or whose title or url is not a string) no
\* exception leaves the loop over the keyword groups.  (The TypeError of
\* the sort step, which comes after the loop, is the subject of C7.)
C11_ResponseContentNeverRaises ==
    pc = "raised" => error \in {"ValueError", "TypeError"}

\* C12: fail fast.  With NEWSAPI_KEY missing or empty collect_news sends no
\* request at any time, and it ends by raising the configuration error,
\* without entering the loop; with a non-empty key that error is never
\* raised.
C12_FailFast ==
    /\ NEWSAPI_KEY = "" =>
          /\ requests = <<>>
          /\ pc \in {"start", "raised"}
          /\ pc = "raised" => error = "ValueError"
    /\ NEWSAPI_KEY # "" => error # "ValueError"

\* C12 witness: collect_news has raised the configuration error for an
\* empty key, no request sent.
C12_Witness ==
    /\ NEWSAPI_KEY = ""
    /\ pc = "raised"
    /\ error = "ValueError"
    /\ requests = <<>>

(***************************************************************************)
(* Properties of the quality filter and of the Article objects built       *)
(* (SpecFetch).                                                            *)
(***************************************************************************)
\* the field is absent, null, empty or made of spaces only
Blank(field) ==
    field.kind # "str" \/ \A k \in 1..Len(field.s) : field.s[k] = " "

\* s is t with spaces, and nothing else, before and after it
Padded(s, t) ==
    \E a \in 0..Len(s) :
        /\ a + Len(t) <= Len(s)
        /\ \A k \in 1..Len(t) : s[a + k] = t[k]
        /\ \A k \in 1..Len(s) : (k <= a \/ k > a + Len(t)) => s[k] = " "

\* "[removed]" in lower or upper case letters, one set per character
RemovedLetters ==
    << {"["}, {"r", "R"}, {"e", "E"}, {"m", "M"}, {"o", "O"}, {"v", "V"},
       {"e", "E"}, {"d", "D"}, {"]"} >>

\* the field is a string that reads "[removed]" between spaces
Sentinel(field) ==
    /\ field.kind = "str"
    /\ \E a \in 0..Len(field.s) :
          /\ a + Len(RemovedLetters) <= Len(field.s)
          /\ \A k \in 1..Len(RemovedLetters) :
                field.s[a + k] \in RemovedLetters[k]
          /\ \A k \in 1..Len(field.s) :
                (k <= a \/ k > a + Len(RemovedLetters)) => field.s[k] = " "

AcceptedUpTo(n) == {i \in 1..n : verdicts[i] = TRUE}

\* C14: the Article objects built are, in order, one per record the quality
\* filter accepted and none for a rejected record; the title and the url
\* of each are those of its record without the surrounding whitespace:
\* non-empty, and with no leading or trailing whitespace.
C14_ArticlesFromAcceptedRecords ==
    /\ Len(fetched) = Cardinality(AcceptedUpTo(fpos))
    /\ \A i \in AcceptedUpTo(fpos) :
          LET raw == raw_articles[i]
              article == fetched[Cardinality(AcceptedUpTo(i))]
          IN  /\ ~Blank(raw.title) /\ ~Blank(raw.url)
              /\ ~Sentinel(raw.title) /\ ~Sentinel(raw.description)
              /\ Len(article.title) > 0
              /\ article.title[1] # " "
              /\ article.title[Len(article.title)] # " "
              /\ Padded(raw.title.s, article.title)
              /\ Len(article.url) > 0
              /\ article.url[1] # " "
              /\ article.url[Len(article.url)] # " "
              /\ Padded(raw.url.s, article.url)

\* C14 witness: a response with a rejected record followed by an accepted
\* one whose title and url came with surrounding whitespace.
C14_Witness ==
    /\ fpc = "returned"
    /\ Len(fetched) = 1
    /\ \E i, j \in 1..Len(raw_articles) :
          /\ i < j
          /\ verdicts[i] = FALSE
          /\ verdicts[j] = TRUE
          /\ fetched[1].title # raw_articles[j].title.s
          /\ fetched[1].url # raw_articles[j].url.s

(***************************************************************************)
(* Properties of the merge of the keyword groups (SpecMerge).              *)
(***************************************************************************)
\* article j of all_articles duplicates article i: same normalized URL, or
\* title similar with j's title as the first argument of the ratio
DuplicatesMerged(j, i) ==
    \/ SameUrl(all_articles[j].url, all_articles[i].url)
    \/ _is_similar_title(all_articles[j].title, all_articles[i].title)

\* the articles that survive deduplication (unique_articles, before truncation)
Survivors == Ids(unique_articles)

\* C16, as stated: when an article of a later keyword group duplicates an
\* article of an earlier group, the one of the later group does not survive
\* deduplication.
C16_LaterGroupNeverSurvives ==
    pc = "done" =>
        \A i, j \in 1..Len(all_articles) :
            (all_articles[i].group < all_articles[j].group
             /\ DuplicatesMerged(j, i))
            => j \notin Survivors

\* C16, amended: all_articles holds the articles in keyword-group
\* declaration order; when an article of a later group duplicates an
\* article of an earlier group, both never survive: the later one is
\* dropped if the earlier one was accepted, whichever is more recent, and
\* the later one survives only if the earlier one was itself dropped as
\* the duplicate of an accepted article before it.
C16_EarlierAcceptedWins ==
    /\ \A i, j \in 1..Len(all_articles) :
          i < j => all_articles[i].group <= all_articles[j].group
    /\ pc = "done" =>
          \A i, j \in 1..Len(all_articles) :
              (all_articles[i].group < all_articles[j].group
               /\ DuplicatesMerged(j, i))
              => /\ i \in Survivors => j \notin Survivors
                 /\ j \in Survivors =>
                       /\ i \notin Survivors
                       /\ \E e \in 1..(i - 1) :
                             e \in Survivors /\ DuplicatesMerged(i, e)

\* C16 witness: an article of the second group duplicates an older article
\* of the first group by title only; the older one survived, it did not.
C16_Witness ==
    /\ pc = "done"
    /\ \E i, j \in 1..Len(all_articles) :
          /\ all_articles[i].group < all_articles[j].group
          /\ DuplicatesMerged(j, i)
          /\ ~SameUrl(all_articles[j].url, all_articles[i].url)
          /\ ParsedTime(all_articles[j]) > ParsedTime(all_articles[i])
          /\ i \in Survivors
          /\ j \notin Survivors

(***************************************************************************)
(* Properties of run_pipeline (SpecPipeline).                              *)
(***************************************************************************)
\* run_pipeline has called fn
Called(fn) == \E k \in 1..Len(calls) : calls[k] = fn

\* C15: when collect_news returns an empty list, run_pipeline returns at
\* once and normally: translate_and_summarize, generate_weekly_report,
\* _save_articles_json and send_notification are never called, and no
\* report is written.
C15_EmptyCollectionEndsPipeline ==
    ( /\ ~dry_run
      /\ ppc \notin {"idle", "step1"}
      /\ p_articles = <<>>
      /\ ~(ppc = "raised" /\ calls = <<"collect_news">>) )
    => /\ ppc = "returned"
       /\ calls = <<"collect_news">>
       /\ report = <<>>
       /\ sent = "none"

\* C15 witness: collect_news returned an empty list and run_pipeline has
\* returned.
C15_Witness ==
    /\ ppc = "returned"
    /\ calls = <<"collect_news">>
    /\ p_articles = <<>>
    /\ send_email /\ save_json

\* C18: in a dry run collect_news, translate_and_summarize and
\* send_notification are never called, whatever send_email; the dry run
\* does not end before the report, which is generated from the dummy
\* articles; and with send_email false send_notification is never called,
\* dry run or not.
C18_DryRunCallsNothingExternal ==
    /\ dry_run =>
          /\ ~Called("collect_news")
          /\ ~Called("translate_and_summarize")
          /\ ~Called("send_notification")
          /\ ppc # "returned"
          /\ ppc \in {"save", "step4", "completed"} =>
                /\ Called("generate_weekly_report")
                /\ report = DummyArticles
    /\ ~send_email => ~Called("send_notification") /\ sent = "none"

\* C18 witness: a dry run with send_email true has completed, the report
\* made from the dummy articles.
C18_Witness ==
    /\ dry_run /\ send_email
    /\ ppc = "completed"
    /\ report = DummyArticles
    /\ calls[1] = "_create_dummy_articles"

\* C19: send_notification is called only after generate_weekly_report has
\* returned, and however the send ends (True, False, an exception)
\* run_pipeline completes normally with the report in place.
C19_SendAfterReportNeverAborts ==
    /\ Called("send_notification") =>
          /\ \E i, j \in 1..Len(calls) :
                /\ i < j
                /\ calls[i] = "generate_weekly_report"
                /\ calls[j] = "send_notification"
          /\ report # <<>>
          /\ report = p_articles
    /\ sent # "none" => ppc = "completed"
    /\ ppc = "raised" => ~Called("send_notification")

\* C19 witness: send_notification raised, and run_pipeline has completed
\* with the report of the translated articles in place.
C19_Witness ==
    /\ sent = "raised"
    /\ ppc = "completed"
    /\ report = p_articles
    /\ Len(report) > 0
    /\ calls[Len(calls)] = "send_notification"

(***************************************************************************)
(* Properties of translate_and_summarize and _call_claude_with_retry       *)
(* (SpecTranslate).                                                        *)
(***************************************************************************)
\* C17: when translate_and_summarize returns, every article of the list
\* has had title_ja, summary_ja and category assigned, and the category is
\* a key of CATEGORIES: the answered category if it is such a key, "other"
\* if it is not or if the answer has no category; the list returned is the
\* argument, with every article at its place.
C17_EveryArticleAssigned ==
    /\ \A k \in 1..Len(t_articles) :
          /\ t_articles[k].id = k
          /\ t_articles[k].assigned <=> k <= ti
          /\ t_articles[k].assigned =>
                /\ t_articles[k].category \in CATEGORIES
                /\ t_articles[k].answer # NoAnswer
                /\ t_articles[k].answer # FallbackUsed =>
                      t_articles[k].category =
                          IF t_articles[k].answer.category
                                \in {"equipment", "technology", "automotive",
                                     "regulation", "market", "company"}
                          THEN t_articles[k].answer.category
                          ELSE "other"
    /\ tpc = "returned" => ti = Len(t_articles)

\* C17 witness: translate_and_summarize has returned two articles, one
\* answered with a category that is no key and one with no category.
C17_Witness ==
    /\ tpc = "returned"
    /\ \E i, j \in 1..Len(t_articles) :
          /\ t_articles[i].answer \notin {NoAnswer, FallbackUsed}
          /\ t_articles[j].answer \notin {NoAnswer, FallbackUsed}
          /\ t_articles[i].answer.category = "gadgets"
          /\ t_articles[i].category = "other"
          /\ t_articles[j].answer.category = Missing
          /\ t_articles[j].category = "other"

\* the number of rate-limit errors in a row that end with attempt k - 1
\* (the attempts before attempt k, counted from 1, in history)
RECURSIVE RateLimitRun(_)
RateLimitRun(k) ==
    IF k = 0 \/ history[k] # "rate_limit" THEN 0 ELSE 1 + RateLimitRun(k - 1)

AttemptsExhausted ==
    /\ Len(history) = max_retries
    /\ history[max_retries] \notin {"success", "malformed"}

=============================================================================
